---- MODULE Spec2Model ----
(***************************************************************************)
(* Model of the memory-translation and memory-attribution core of the      *)
(* VeeR-ISS simulator: VirtMem (src/VirtMem.cpp), PmaManager               *)
(* (src/PmaManager.hpp).                                                   *)
(*                                                                         *)
(* Machine words.  Addresses and page table entries are 64-bit (size_t,    *)
(* uint64_t) or 32-bit (uint32_t, unsigned) values.  They are represented  *)
(* as the set of the positions of their 1 bits, so that 0x1234 is          *)
(* {2, 4, 5, 9, 12}: bitwise or is union, bitwise and is intersection, a   *)
(* shift moves the positions, and a conversion to a narrower type drops   *)
(* the positions at and above its width.                                   *)
(***************************************************************************)
EXTENDS Integers, Sequences, FiniteSets, TLC

\* ------------------------------------------------------------------------
\* Machine words
\* ------------------------------------------------------------------------

\* The element of a one-element set.  The({e(v) : v \in {x}}) is e(x) with
\* x computed once, however often e uses it.
The(S) == CHOOSE v \in S : TRUE

\* x converted to an unsigned type of w bits.
Trunc(x, w) == {b \in x : b < w}

\* x >> n.
Shr(x, n) == {b - n : b \in {c \in x : c >= n}}

\* x << n in a type of w bits, n < w.
Shl(x, n, w) == Trunc({b + n : b \in x}, w)

\* The bit-field of n bits that starts at bit lo of x.
Field(x, lo, n) == Trunc(Shr(x, lo), n)

\* The carry into bit i of x + y: some lower bit generates a carry that
\* every bit in between propagates.
Carry(x, y, i) ==
  \E j \in x \cap y : j < i /\ \A k \in (j + 1)..(i - 1) : k \in x \cup y

\* x + y in an unsigned type of w bits (without a common 1 bit there is no
\* carry, and the sum is the bitwise or).
Add(x, y, w) ==
  The({IF a \cap b = {} THEN Trunc(a \cup b, w)
       ELSE {i \in 0..(w - 1) : ((i \in a) # (i \in b)) # Carry(a, b, i)} :
       a \in {x}, b \in {y}})

RECURSIVE MulBits(_, _, _)
MulBits(x, ys, w) ==
  IF ys = {} THEN {}
  ELSE The({Add(Shl(x, b, w), MulBits(x, rest, w), w) :
            b \in {CHOOSE c \in ys : TRUE}, rest \in {ys \ {CHOOSE c \in ys : TRUE}}})

\* x * y in an unsigned type of w bits.
Mul(x, y, w) == The({MulBits(a, Trunc(b, w), w) : a \in {x}, b \in {y}})

\* x < y as unsigned values.
Less(x, y) ==
  \E a \in {x}, b \in {y} :
    \E i \in b : i \notin a /\ \A j \in (a \cup b) : j > i => (j \in a <=> j \in b)

RECURSIVE Word(_)
\* The machine word of a natural number below 2^31.
Word(n) == IF n = 0 THEN {}
           ELSE (IF n % 2 = 1 THEN {0} ELSE {}) \cup {b + 1 : b \in Word(n \div 2)}

RECURSIVE Pow2(_)
\* 1 << n.
Pow2(n) == IF n = 0 THEN 1 ELSE 2 * Pow2(n - 1)

RECURSIVE HexFrom(_, _)
HexFrom(digits, i) ==
  IF i > Len(digits) THEN {}
  ELSE {b + 4 * (Len(digits) - i) : b \in Word(digits[i])} \cup HexFrom(digits, i + 1)

\* The machine word written in hexadecimal digits, most significant first:
\* Hex(<<1, 2, 3, 4>>) is 0x1234.
Hex(digits) == HexFrom(digits, 1)

\* ------------------------------------------------------------------------
\* Page table entries and virtual addresses (Pte32/39/48, Va32/39/48)
\* ------------------------------------------------------------------------

\* VirtMem::Mode, without Sv57 and Sv64, which the assertion of translate
\* (line 97) rejects.
Modes == {"Bare", "Sv32", "Sv39", "Sv48"}

PrivilegeModes == {"User", "Supervisor", "Machine"}

\* The flag bits of a page table entry: the first eight bit-fields of
\* Pte32Bits, Pte39Bits and Pte48Bits, in declaration order.
ValidBit == {0}
ReadBit == {1}
WriteBit == {2}
ExecBit == {3}
UserBit == {4}
GlobalBit == {5}
AccessedBit == {6}
DirtyBit == {7}

valid(pte) == ValidBit \subseteq pte
read(pte) == ReadBit \subseteq pte
write(pte) == WriteBit \subseteq pte
exec(pte) == ExecBit \subseteq pte
user(pte) == UserBit \subseteq pte
global(pte) == GlobalBit \subseteq pte
accessed(pte) == AccessedBit \subseteq pte
dirty(pte) == DirtyBit \subseteq pte

\* PTE::levels().
levels(m) == CASE m = "Sv32" -> 2 [] m = "Sv39" -> 3 [] m = "Sv48" -> 4

\* PTE::size(): sizeof(data_).
size(m) == CASE m = "Sv32" -> 4 [] m = "Sv39" -> 8 [] m = "Sv48" -> 8

\* The first bit and the width of bit-field ppn<i>_ of a page table entry.
\* The bit-fields are laid out in declaration order without padding (their
\* widths add up to the width of data_).
PpnWidth(m, i) ==
  CASE m = "Sv32" -> <<10, 12>>[i + 1]
    [] m = "Sv39" -> <<9, 9, 26>>[i + 1]
    [] m = "Sv48" -> <<9, 9, 9, 17>>[i + 1]

PpnLo(m, i) ==
  CASE m = "Sv32" -> <<10, 20>>[i + 1]
    [] m = "Sv39" -> <<10, 19, 28>>[i + 1]
    [] m = "Sv48" -> <<10, 19, 28, 37>>[i + 1]

\* PTE::ppn(int i): ppn0(), ppn1(), ... each return the bit-field as uint32_t.
ppnField(m, pte, i) == Field(pte, PpnLo(m, i), PpnWidth(m, i))

\* PTE::ppn(): uint32_t arithmetic, so the shifted fields are cut to 32 bits.
ppn(m, pte) ==
  CASE m = "Sv32" -> ppnField(m, pte, 0) \cup Shl(ppnField(m, pte, 1), 10, 32)
    [] m = "Sv39" -> ppnField(m, pte, 0) \cup Shl(ppnField(m, pte, 1), 9, 32)
                       \cup Shl(ppnField(m, pte, 2), 18, 32)
    [] m = "Sv48" -> ppnField(m, pte, 0) \cup Shl(ppnField(m, pte, 1), 9, 32)
                       \cup Shl(ppnField(m, pte, 2), 18, 32)
                       \cup Shl(ppnField(m, pte, 3), 27, 32)

\* PTE::paPpnShift(int i).
paPpnShift(m, i) ==
  CASE m = "Sv32" -> <<12, 22>>[i + 1]
    [] m = "Sv39" -> <<12, 21, 30>>[i + 1]
    [] m = "Sv48" -> <<12, 21, 30, 39>>[i + 1]

\* VA::VA(word): Va32 takes a uint32_t, Va39 and Va48 a uint64_t.
VaData(m, address) == IF m = "Sv32" THEN Trunc(address, 32) ELSE address

\* VA::offset().
offset(va) == Field(va, 0, 12)

\* The bit-field vpn<i>_ of a virtual address.
vpnField(m, va, i) ==
  IF m = "Sv32" THEN Field(va, 12 + 10 * i, 10) ELSE Field(va, 12 + 9 * i, 9)

\* Va48::vpn3() returns bits_.vpn2_.
vpn3(m, va) == vpnField(m, va, 2)

\* VA::vpn(int i).
vpn(m, va, i) == IF m = "Sv48" /\ i = 3 THEN vpn3(m, va) ELSE vpnField(m, va, i)

\* pageFaultType without its read case: a load gets the final return.
pageFaultTypeNoRead(rd, wr, ex) ==
  IF ex THEN "INST_PAGE_FAULT" ELSE "STORE_PAGE_FAULT"

\* pageFaultType(read, write, exec).
pageFaultType(rd, wr, ex) ==
  IF ex THEN "INST_PAGE_FAULT"
  ELSE IF rd THEN "LOAD_PAGE_FAULT"
  ELSE "STORE_PAGE_FAULT"

\* ------------------------------------------------------------------------
\* State
\* ------------------------------------------------------------------------

VARIABLES
  \* VirtMem
  mode,                \* mode_
  pageSize,            \* pageSize_ (unsigned)
  pageBits,            \* pageBits_
  pageMask,            \* pageMask_
  pageTableRootPage,   \* pageTableRootPage_
  asid,                \* asid_ (setAddressSpace is not modelled: it stays 0)
  execReadable,        \* execReadable_ (MXR)
  supervisorOk,        \* supervisorOk_ (SUM)
  faultOnFirstAccess,  \* faultOnFirstAccess_
  tlb,                 \* tlb_: the valid entries, least recently used first
  \* Backing Memory
  mem,                 \* memory_: word address -> 32-bit word (absent: zero)
  \* The last operation and what it returned.
  res,
  calls,               \* translate calls so far
  \* PmaManager
  pagePmas,            \* pagePmas_: page index -> Pma
  wordPmas,            \* wordPmas_: word index -> Pma
  pmaOp,               \* the last PmaManager operation, and getPma before it
  pmaCalls,            \* PmaManager operations so far
  memMappedMasks,      \* memMappedMasks_: word-aligned address -> mask
  memData,             \* the memory resetMemMapped is given: address -> word
  maskOp,              \* the last mask operation, and the masks before it
  \* VecRegs
  vecData,             \* data_: byte offset -> byte
  vecLast,             \* lastWrittenReg_, lastElemWidth_, lastElemIx_
  vecOp,               \* the last read or write, and what it returned
  vecCalls             \* read and write calls so far

vmVars == <<mode, pageSize, pageBits, pageMask, pageTableRootPage, asid,
            execReadable, supervisorOk, faultOnFirstAccess, tlb, mem,
            res, calls>>

pmaVars == <<pagePmas, wordPmas, pmaOp, pmaCalls>>

maskVars == <<memMappedMasks, memData, maskOp>>

vecVars == <<vecData, vecLast, vecOp, vecCalls>>

restVars == <<maskVars, vecVars>>

vars == <<vmVars, pmaVars, restVars>>

\* ------------------------------------------------------------------------
\* Backing Memory (external): read(addr, out) and write(hartIx, addr, value)
\* for 32-bit and 64-bit values, little endian, false when out of range.
\* ------------------------------------------------------------------------

\* The size of the simulated memory: 0x10000 bytes.
MemorySize == Hex(<<1, 0, 0, 0, 0>>)

MemWord(memory, a) == IF a \in DOMAIN memory THEN memory[a] ELSE {}

MemInRange(a, n) ==
  /\ Less(a, MemorySize)
  /\ n = 8 => \E hi \in {Add(a, Word(4), 64)} : Less(hi, MemorySize) /\ Less(a, hi)

\* Memory::read(addr, value) for a value of n bytes, addr word aligned.
MemRead(memory, a, n) ==
  [ok   |-> MemInRange(a, n),
   data |-> IF ~MemInRange(a, n) THEN {}
            ELSE IF n = 4 THEN MemWord(memory, a)
            ELSE MemWord(memory, a)
                   \cup Shl(MemWord(memory, Add(a, Word(4), 64)), 32, 64)]

\* The words that reject a write (a read-only word at address 4).
Protected == {Word(4)}

\* memory with the n-byte value data at address a (absent words are zero).
Store(memory, a, n, data) ==
  The({[x \in {y \in DOMAIN all : all[y] # {}} |-> all[x]] :
       all \in {(IF n = 4 THEN (a :> Trunc(data, 32))
                 ELSE (a :> Trunc(data, 32))
                        @@ (Add(a, Word(4), 64) :> Shr(data, 32))) @@ memory}})

\* Memory::write(hartIx, addr, value) for a value of n bytes, addr word aligned.
MemWrite(memory, a, n, data) ==
  LET ok == /\ MemInRange(a, n)
            /\ a \notin Protected
            /\ n = 8 => Add(a, Word(4), 64) \notin Protected
  IN  [ok |-> ok, mem |-> IF ok THEN Store(memory, a, n, data) ELSE memory]

\* ------------------------------------------------------------------------
\* TLB (Tlb::findEntry, Tlb::insertEntry)
\* ------------------------------------------------------------------------

\* The capacity of the TLB (tlbSize of the constructor).
TlbSize == 2

\* A TlbEntry as constructed: valid_ = false.
NoEntry ==
  [virtPageNum |-> {}, physPageNum |-> {}, asid |-> 0, valid |-> FALSE,
   global |-> FALSE, user |-> FALSE, read |-> FALSE, write |-> FALSE,
   exec |-> FALSE, accessed |-> FALSE, dirty |-> FALSE]

\* The index of the valid entry for (pageNum, as), or 0.
findEntry(t, pageNum, as) ==
  LET hits == {i \in 1..Len(t) : /\ t[i].valid
                                 /\ t[i].virtPageNum = pageNum
                                 /\ (t[i].asid = as \/ t[i].global)}
  IN  IF hits = {} THEN 0 ELSE CHOOSE i \in hits : \A j \in hits : i <= j

\* The entry at index i becomes e and the most recently used one.
useEntry(t, i, e) ==
  Append(SubSeq(t, 1, i - 1) \o SubSeq(t, i + 1, Len(t)), e)

\* Install e, evicting the least recently used entry of a full TLB.
insertEntry(t, e) ==
  IF Len(t) < TlbSize THEN Append(t, e) ELSE Append(Tail(t), e)

\* ------------------------------------------------------------------------
\* VirtMem::pageTableWalk
\* ------------------------------------------------------------------------

\* What a shift of a uint32_t by 32 or more bits (undefined behaviour) may
\* produce: zero, or the shift by the count modulo 32.
UbShifts == {"zero", "wrap"}

\* The outcomes to consider in mode m: only Pte48::paPpnShift(3) = 39 is a
\* shift count of 32 or more.
UbShiftsIn(m) == IF m = "Sv48" THEN UbShifts ELSE {"zero"}

\* x << n for a uint32_t x.
Shl32(x, n, ub) ==
  IF n < 32 THEN Shl(x, n, 32)
  ELSE IF ub = "zero" THEN {}
  ELSE Shl(x, n % 32, 32)

\* The pteAddr declared before the loop (line 123); the loop declares its
\* own pteAddr (line 130), so this one stays 0 and is the one written to.
outerPteAddr == {}

RECURSIVE walkLoop(_, _, _, _, _)

\* One iteration of the loop that takes a pointer entry at level 0 for a
\* leaf.
walkStepLeafAtZero(m, va, pteAddr, got, ii, reads) ==
  LET pte == got.data
      stop(at) == [leaf |-> at = "leaf", at |-> at, pte |-> pte, ii |-> ii,
                   pteAddr |-> pteAddr, reads |-> Append(reads, pteAddr)]
  IN  IF ~got.ok THEN stop("read")
      ELSE IF ~valid(pte) \/ (~read(pte) /\ write(pte)) THEN stop("invalid")
      ELSE IF ~read(pte) /\ ~exec(pte) /\ ii - 1 >= 0
           THEN walkLoop(m, va, Mul(ppn(m, pte), pageSize, 32), ii - 1,
                         Append(reads, pteAddr))
      ELSE stop("leaf")

\* One iteration of the loop without the test of the reserved encoding.
walkStepNoReserved(m, va, pteAddr, got, ii, reads) ==
  LET pte == got.data
      stop(at) == [leaf |-> at = "leaf", at |-> at, pte |-> pte, ii |-> ii,
                   pteAddr |-> pteAddr, reads |-> Append(reads, pteAddr)]
  IN  IF ~got.ok THEN stop("read")
      ELSE IF ~valid(pte) THEN stop("invalid")
      ELSE IF ~read(pte) /\ ~exec(pte)
           THEN IF ii - 1 < 0 THEN stop("levels")
                ELSE walkLoop(m, va, Mul(ppn(m, pte), pageSize, 32), ii - 1,
                              Append(reads, pteAddr))
      ELSE stop("leaf")

\* Steps 2 to 5, one iteration of the loop (lines 133-151), given what the
\* read of pteAddr returned. reads are the addresses read so far.
walkStep(m, va, pteAddr, got, ii, reads) ==
  LET pte == got.data
      stop(at) == [leaf |-> at = "leaf", at |-> at, pte |-> pte, ii |-> ii,
                   pteAddr |-> pteAddr, reads |-> Append(reads, pteAddr)]
  IN  IF ~got.ok THEN stop("read")
      ELSE IF ~valid(pte) \/ (~read(pte) /\ write(pte)) THEN stop("invalid")
      ELSE IF ~read(pte) /\ ~exec(pte)
           THEN IF ii - 1 < 0 THEN stop("levels")
                ELSE walkLoop(m, va, Mul(ppn(m, pte), pageSize, 32), ii - 1,
                              Append(reads, pteAddr))
      ELSE stop("leaf")

\* Steps 2 to 5: the loop from level ii down (lines 128-151).
walkLoop(m, va, root, ii, reads) ==
  The({The({walkStep(m, va, pteAddr, got, ii, reads) :
            got \in {MemRead(mem, pteAddr, size(m))}}) :
       pteAddr \in {Add(root, Mul(vpn(m, va, ii), Word(size(m)), 32), 64)}})

\* Step 6 without the test of supervisorOk_.
walkPrivFaultNoSum(privMode, pte) ==
  \/ privMode = "User" /\ ~user(pte)
  \/ privMode = "Supervisor" /\ user(pte)

\* Step 6, privilege (lines 154-158).
walkPrivFault(privMode, pte) ==
  \/ privMode = "User" /\ ~user(pte)
  \/ privMode = "Supervisor" /\ user(pte) /\ ~supervisorOk

\* Step 6, access kind (lines 160-163).
walkAccessFault(rd, wr, ex, pte) ==
  LET pteRead == read(pte) \/ (execReadable /\ exec(pte))
  IN  (rd /\ ~pteRead) \/ (wr /\ ~write(pte)) \/ (ex /\ exec(pte))

\* Step 7 left out.
walkAlignFaultNone(m, pte, ii) == FALSE

\* Step 7 (lines 166-168).
walkAlignFault(m, pte, ii) == \E j \in 0..(ii - 1) : ppnField(m, pte, j) # {}

\* Step 8 looking at the accessed bit only.
walkNeedsUpdateNoDirty(wr, pte) == ~accessed(pte)

\* Step 8: whether the entry needs its accessed or dirty bit set (line 171).
walkNeedsUpdate(wr, pte) == ~accessed(pte) \/ (wr /\ ~dirty(pte))

\* Step 8 B1 setting the accessed bit only.
walkUpdatedNoDirty(wr, pte) == pte \cup AccessedBit

\* Step 8 B1: the entry with the bits set (lines 181-183).
walkUpdated(wr, pte) == pte \cup AccessedBit \cup (IF wr THEN DirtyBit ELSE {})

\* Step 8: the address the updated entry is written to (line 186).
walkWriteAddr(leafAddr) == outerPteAddr

\* Step 9 (lines 191-197).
walkPa(m, va, pte, ii, ub) ==
  offset(va)
    \cup UNION {Shl32(vpn(m, va, j), paPpnShift(m, j), ub) : j \in 0..(ii - 1)}
    \cup UNION {Shl32(ppnField(m, pte, j), paPpnShift(m, j), ub) :
                  j \in ii..(levels(m) - 1)}

\* The TlbEntry filled in at the end of the walk (lines 200-210).
walkEntry(address, pa, pte) ==
  [virtPageNum |-> Shr(address, pageBits), physPageNum |-> Shr(pa, pageBits),
   asid |-> asid, valid |-> TRUE, global |-> global(pte), user |-> user(pte),
   read |-> read(pte), write |-> write(pte), exec |-> exec(pte),
   accessed |-> accessed(pte), dirty |-> dirty(pte)]

\* The permissions a translation was decided on: those of the leaf entry
\* as it was read, or of the TLB entry as it was found.
PtePerms(pte) ==
  [user |-> user(pte), read |-> read(pte), write |-> write(pte),
   exec |-> exec(pte), accessed |-> accessed(pte), dirty |-> dirty(pte)]

EntryPerms(e) ==
  [user |-> e.user, read |-> e.read, write |-> e.write, exec |-> e.exec,
   accessed |-> e.accessed, dirty |-> e.dirty]

NoPerms == EntryPerms(NoEntry)

\* Steps 6 to 9 and the TLB entry (lines 126, 153-212), w being where the
\* loop stopped.
walkFinish(m, address, va, w, privMode, rd, wr, ex, paIn, ub) ==
  LET pte == w.pte
      upd == walkNeedsUpdate(wr, pte)
      pte2 == IF upd THEN walkUpdated(wr, pte) ELSE pte
      wb == MemWrite(mem, walkWriteAddr(w.pteAddr), size(m), pte2)
      pa == walkPa(m, va, pte, w.ii, ub)
      ret(cause, at, paOut, memOut, writes, entry) ==
        [cause |-> cause, at |-> at, pa |-> paOut, mem |-> memOut,
         reads |-> w.reads, writes |-> writes, entry |-> entry,
         leaf |-> w.leaf, pte |-> pte, level |-> w.ii, pteAddr |-> w.pteAddr]
      fault(at, memOut, writes) ==
        ret(pageFaultType(rd, wr, ex), at, paIn, memOut, writes, NoEntry)
  IN  IF ~w.leaf THEN fault(w.at, mem, <<>>)
      ELSE IF privMode = "User" /\ walkPrivFault(privMode, pte)
           THEN fault("user", mem, <<>>)
      ELSE IF walkPrivFault(privMode, pte) THEN fault("sum", mem, <<>>)
      ELSE IF walkAccessFault(rd, wr, ex, pte) THEN fault("access", mem, <<>>)
      ELSE IF walkAlignFault(m, pte, w.ii) THEN fault("align", mem, <<>>)
      ELSE IF upd /\ faultOnFirstAccess THEN fault("first", mem, <<>>)
      ELSE IF upd /\ ~wb.ok THEN fault("writeback", mem, <<>>)
      ELSE ret("NONE", "done", pa,
               IF upd THEN wb.mem ELSE mem,
               IF upd THEN <<[addr |-> walkWriteAddr(w.pteAddr), data |-> pte2]>>
               ELSE <<>>,
               walkEntry(address, pa, pte2))

\* pageTableWalk<PTE, VA>(address, privMode, read, write, exec, pa, tlbEntry):
\* the cause, the caller's pa, the return statement reached (at), the memory
\* and the TLB entry afterwards.
pageTableWalk(m, address, privMode, rd, wr, ex, paIn, ub) ==
  The({walkFinish(m, address, VaData(m, address), w, privMode, rd, wr, ex,
                  paIn, ub) :
       w \in {walkLoop(m, VaData(m, address),
                       Mul(pageTableRootPage, pageSize, 64), levels(m) - 1,
                       <<>>)}})

\* ------------------------------------------------------------------------
\* VirtMem::translate
\* ------------------------------------------------------------------------

\* Part 1 of address translation for Sv39: bits 63-39 must equal bit 38
\* (lines 79-83).
nonCanonical39(va) ==
  LET mask == IF Field(va, 38, 1) # {} THEN Hex(<<1, 15, 15, 15, 15, 15, 15>>) ELSE {}
  IN  Shr(va, 39) # mask

\* Part 1 of address translation for Sv48: bits 63-48 must equal bit 47
\* (lines 89-93).
nonCanonical48(va) ==
  LET mask == IF Field(va, 47, 1) # {} THEN Hex(<<15, 15, 15, 15>>) ELSE {}
  IN  Shr(va, 48) # mask

\* Use of a TLB entry, privilege (lines 50-53).
hitPrivFault(priv, entry) ==
  \/ priv = "User" /\ ~entry.user
  \/ priv = "Supervisor" /\ entry.user /\ ~supervisorOk

\* Use of a TLB entry, access kind (lines 54-57).
hitAccessFault(rd, wr, ex, entry) ==
  LET entryRead == entry.read \/ (execReadable /\ entry.exec)
  IN  (rd /\ ~entryRead) \/ (wr /\ ~entry.write) \/ (ex /\ ~entry.exec)

\* Use of a TLB entry: the physical address (line 66).
hitPa(va, entry) ==
  Shl(entry.physPageNum, pageBits, 64) \cup (va \cap pageMask)

\* The TLB hit of translate (lines 47-68), entry ix of the TLB.
translateHit(va, priv, rd, wr, ex, paIn, ix) ==
  LET entry == tlb[ix]
      upd == ~entry.accessed \/ (wr /\ ~entry.dirty)
      entry2 == IF upd
                THEN [entry EXCEPT !.accessed = TRUE,
                                   !.dirty = IF wr THEN TRUE ELSE @]
                ELSE entry
      ret(cause, at, paOut, tlbOut) ==
        [cause |-> cause, at |-> at, pa |-> paOut, hit |-> TRUE,
         leaf |-> TRUE, perms |-> EntryPerms(entry), pte |-> {}, level |-> 0,
         pteAddr |-> {}, reads |-> <<>>, writes |-> <<>>, mem |-> mem,
         tlb |-> tlbOut]
      fault(at) == ret(pageFaultType(rd, wr, ex), at, paIn, tlb)
  IN  IF priv = "User" /\ hitPrivFault(priv, entry) THEN fault("user")
      ELSE IF hitPrivFault(priv, entry) THEN fault("sum")
      ELSE IF hitAccessFault(rd, wr, ex, entry) THEN fault("access")
      ELSE IF upd /\ faultOnFirstAccess THEN fault("first")
      ELSE ret("NONE", "done", hitPa(va, entry), useEntry(tlb, ix, entry2))

\* The result of translate without a TLB hit (lines 70-103).
walkResult(cause, at, paOut, leaf, pte, level, pteAddr, rds, wrs, memOut, t) ==
  [cause |-> cause, at |-> at, pa |-> paOut, hit |-> FALSE, leaf |-> leaf,
   perms |-> IF leaf THEN PtePerms(pte) ELSE NoPerms, pte |-> pte,
   level |-> level, pteAddr |-> pteAddr, reads |-> rds, writes |-> wrs,
   mem |-> memOut, tlb |-> t]

\* The end of translate with the TLB entry inserted whatever the cause.
translateWalkedAlways(w) ==
  walkResult(w.cause, w.at, w.pa, w.leaf, w.pte, w.level, w.pteAddr, w.reads,
             w.writes, w.mem, insertEntry(tlb, w.entry))

\* The end of translate after pageTableWalk returned w (lines 99-103).
translateWalked(w) ==
  walkResult(w.cause, w.at, w.pa, w.leaf, w.pte, w.level, w.pteAddr, w.reads,
             w.writes, w.mem,
             IF w.cause = "NONE" THEN insertEntry(tlb, w.entry) ELSE tlb)

\* translate without a TLB hit: the canonical form of the address, then the
\* page table walk of the mode (lines 70-103).
translateWalk(va, priv, rd, wr, ex, paIn, ub) ==
  IF \/ mode = "Sv39" /\ nonCanonical39(va)
     \/ mode = "Sv48" /\ nonCanonical48(va)
  THEN walkResult(pageFaultType(rd, wr, ex), "canonical", paIn, FALSE, {}, 0,
                  {}, <<>>, <<>>, mem, tlb)
  ELSE The({translateWalked(w) :
            w \in {pageTableWalk(mode, va, priv, rd, wr, ex, paIn, ub)}})

\* translate with the TLB probed before the test for Bare mode.
translateProbeFirst(va, priv, rd, wr, ex, paIn, ub) ==
  The({IF ix # 0 THEN translateHit(va, priv, rd, wr, ex, paIn, ix)
       ELSE IF mode = "Bare"
       THEN [cause |-> "NONE", at |-> "bare", pa |-> va, hit |-> FALSE,
             leaf |-> FALSE, perms |-> NoPerms, pte |-> {}, level |-> 0,
             pteAddr |-> {}, reads |-> <<>>, writes |-> <<>>, mem |-> mem,
             tlb |-> tlb]
       ELSE translateWalk(va, priv, rd, wr, ex, paIn, ub) :
       ix \in {findEntry(tlb, Shr(va, pageBits), asid)}})

\* translate(va, priv, read, write, exec, pa): what it returns (cause, pa),
\* the return statement reached (at), what it read and wrote, and the memory
\* and the TLB afterwards.
translate(va, priv, rd, wr, ex, paIn, ub) ==
  IF mode = "Bare"
  THEN [cause |-> "NONE", at |-> "bare", pa |-> va, hit |-> FALSE,
        leaf |-> FALSE, perms |-> NoPerms, pte |-> {}, level |-> 0,
        pteAddr |-> {}, reads |-> <<>>, writes |-> <<>>, mem |-> mem,
        tlb |-> tlb]
  ELSE The({IF ix # 0 THEN translateHit(va, priv, rd, wr, ex, paIn, ix)
            ELSE translateWalk(va, priv, rd, wr, ex, paIn, ub) :
            ix \in {findEntry(tlb, Shr(va, pageBits), asid)}})

\* ------------------------------------------------------------------------
\* The page tables in Backing Memory and the inputs of translate
\* ------------------------------------------------------------------------

\* The page table entry of mode m with the given flag bits and ppn fields
\* (ppns[1] is ppn0).
Pte(m, flags, ppns) ==
  flags \cup UNION {Shl(Word(ppns[i + 1]), PpnLo(m, i), 64) : i \in 0..(Len(ppns) - 1)}

RECURSIVE StoreAll(_, _)
StoreAll(memory, items) ==
  IF items = <<>> THEN memory
  ELSE StoreAll(Store(memory, items[1][1], items[1][2], items[1][3]), Tail(items))

V == ValidBit
R == ReadBit
W == WriteBit
X == ExecBit
U == UserBit
A == AccessedBit
D == DirtyBit

\* Sv32 tables: root page 1, a level 0 table in page 2.
\* Sv39 tables: root page 8, level 1 tables in pages 9 and 10, a level 0
\* table in page 11.  Sv48 tables: root page 0, which points to page 8.
PageTables ==
  StoreAll(<<>>, <<
    \* Sv32: va 0x00800123 -> PPN 3; va 0x00802123 -> PPN 4, A = D = 0.
    <<Hex(<<1, 0, 0, 8>>), 4, Pte("Sv32", V, <<2, 0>>)>>,
    <<Hex(<<2, 0, 0, 0>>), 4, Pte("Sv32", V \cup R \cup W \cup X \cup U \cup A \cup D, <<3, 0>>)>>,
    <<Hex(<<2, 0, 0, 8>>), 4, Pte("Sv32", V \cup R \cup W \cup U, <<4, 0>>)>>,
    \* Sv39 level 2: pointers to pages 9, 10, 8 (a cycle) and 0x20 (beyond
    \* the memory).
    <<Hex(<<8, 0, 0, 0>>), 8, Pte("Sv39", V, <<9, 0, 0>>)>>,
    <<Hex(<<8, 0, 0, 8>>), 8, Pte("Sv39", V, <<10, 0, 0>>)>>,
    <<Hex(<<8, 0, 1, 0>>), 8, Pte("Sv39", V, <<8, 0, 0>>)>>,
    <<Hex(<<8, 0, 1, 8>>), 8, Pte("Sv39", V, <<32, 0, 0>>)>>,
    \* Sv39 level 1 in page 9: pointer to page 11.
    <<Hex(<<9, 0, 0, 0>>), 8, Pte("Sv39", V, <<11, 0, 0>>)>>,
    \* Sv39 level 1 in page 10: a 2 MiB leaf with ppn2 = 5, and a
    \* misaligned one (ppn0 = 1).
    <<Hex(<<10, 0, 0, 0>>), 8, Pte("Sv39", V \cup R \cup W \cup X \cup U \cup A \cup D, <<0, 0, 5>>)>>,
    <<Hex(<<10, 0, 0, 8>>), 8, Pte("Sv39", V \cup R \cup W \cup X \cup U \cup A \cup D, <<1, 0, 5>>)>>,
    \* Sv39 level 0 in page 11.
    <<Hex(<<11, 0, 0, 0>>), 8, Pte("Sv39", V \cup R \cup W \cup X \cup U \cup A \cup D, <<7, 0, 0>>)>>,
    <<Hex(<<11, 0, 0, 8>>), 8, Pte("Sv39", V \cup X \cup A, <<8, 0, 0>>)>>,
    <<Hex(<<11, 0, 1, 0>>), 8, Pte("Sv39", V \cup R \cup W \cup U, <<9, 0, 0>>)>>,
    <<Hex(<<11, 0, 1, 8>>), 8, Pte("Sv39", R \cup W \cup X \cup U \cup A \cup D, <<10, 0, 0>>)>>,
    <<Hex(<<11, 0, 2, 0>>), 8, Pte("Sv39", V \cup W \cup X \cup U \cup A \cup D, <<10, 0, 0>>)>>,
    <<Hex(<<11, 0, 2, 8>>), 8, Pte("Sv39", V \cup R \cup W \cup U \cup A, <<6, 0, 0>>)>>,
    \* Sv48 level 3: pointer to page 8.
    <<{}, 8, Pte("Sv48", V, <<8, 0, 0, 0>>)>>
  >>)

\* The page table roots setPageTableRoot is called with.
Roots == {Word(0), Word(1), Word(8)}

\* The virtual addresses translate is called with in each mode.
Va32a == Hex(<<0, 0, 8, 0, 0, 1, 2, 3>>)
Va32b == Hex(<<0, 0, 8, 0, 2, 1, 2, 3>>)
VaHigh == Hex(<<8, 0, 0, 0, 0, 0, 0, 0, 0, 0, 8, 0, 0, 1, 2, 3>>)
VaBit39 == Hex(<<8, 0, 0, 0, 0, 0, 0, 2, 3, 4>>)
Va0 == Hex(<<0, 2, 3, 4>>)
Va1 == Hex(<<1, 2, 3, 4>>)
Va2 == Hex(<<2, 2, 3, 4>>)
Va3 == Hex(<<3, 2, 3, 4>>)
Va4 == Hex(<<4, 2, 3, 4>>)
Va5 == Hex(<<5, 2, 3, 4>>)
VaSuper == Hex(<<4, 0, 0, 0, 1, 2, 3, 4>>)
VaMisaligned == Hex(<<4, 0, 2, 0, 1, 2, 3, 4>>)
VaCycle == Hex(<<8, 0, 4, 0, 2, 2, 3, 4>>)
VaBeyond == Hex(<<12, 0, 0, 0, 0, 2, 3, 4>>)

VAs(m) ==
  CASE m = "Bare" -> {VaSuper, VaHigh}
    [] m = "Sv32" -> {Va32a, Va32b}
    [] m = "Sv39" -> {Va0, Va1, Va2, Va3, Va4, Va5, VaSuper, VaMisaligned,
                      VaCycle, VaBeyond, VaBit39, VaHigh}
    [] m = "Sv48" -> {Va0, VaSuper, VaBit39, VaHigh}

Kinds == {"read", "write", "exec"}

\* What the caller's pa holds before a call: 0xdead.
PaBefore == Hex(<<13, 14, 10, 13>>)

\* The translate calls of a run.
MaxCalls == 2

\* ------------------------------------------------------------------------
\* Physical memory attributes (Pma, PmaManager)
\* ------------------------------------------------------------------------

\* Pma::Attrib: attrib_ as the set of the positions of its 1 bits.
None == {}
Exec == {0}
Read == {1}
Write == {2}
Idempotent == {3}
Atomic == {4}
Iccm == {5}
Dccm == {6}
MemMapped == {7}
Cached == {8}
Aligned == {10}
ReadWrite == Read \cup Write
Mapped == Exec \cup Read \cup Write
Default == Mapped \cup Idempotent \cup Atomic

\* Pma::Pma(Attrib a = None).
Pma(a) == [attrib |-> a, word |-> FALSE]

\* Pma::operator==.
PmaEq(p, q) == p.attrib = q.attrib

\* log2 of the page size and the number of pages the PmaManager is
\* constructed with: pages of 8 bytes (2 words), 2 pages.
PmaPageShift == 3
PmaPages == 2

pmaPageSize == Pow2(PmaPageShift)
pmaMemSize == PmaPages * pmaPageSize

\* PmaManager::getPageIx(addr): addr >> pageShift_.
getPageIx(addr) == addr \div pmaPageSize

\* What wordPmas_.at(addr) does for an absent key: it throws.
OutOfRange == [attrib |-> "std::out_of_range", word |-> FALSE]

\* getPma returning the word entry wherever there is one.
getPmaByWord(pages, words, addr) ==
  IF getPageIx(addr) >= PmaPages THEN Pma(None)
  ELSE IF addr \div 4 \in DOMAIN words THEN words[addr \div 4]
  ELSE pages[getPageIx(addr)]

\* PmaManager::getPma(addr), on the tables pages and words.
getPma(pages, words, addr) ==
  IF getPageIx(addr) >= PmaPages THEN Pma(None)
  ELSE IF pages[getPageIx(addr)].word
       THEN IF addr \div 4 \in DOMAIN words THEN words[addr \div 4]
            ELSE OutOfRange
       ELSE pages[getPageIx(addr)]

\* The word indices of page pageIx: (pageIx*pageSize_) >> 2 and the
\* pageSize_/4 - 1 that follow.
pageWords(pageIx) ==
  {(pageIx * pmaPageSize) \div 4 + i : i \in 0..(pmaPageSize \div 4 - 1)}

\* PmaManager::fracture(addr): pagePmas_.at(pageIx) throws std::out_of_range
\* for a page index that is not in pagePmas_ (lines 200-201).
fractureThrows(addr) == getPageIx(addr) >= PmaPages

\* PmaManager::fracture(addr) for an addr in range: wordPmas_ afterwards.
\* The flag is set in the local copy pma, which goes into wordPmas_;
\* pagePmas_ is not assigned.
fracture(pages, words, addr) ==
  IF pages[getPageIx(addr)].word THEN words
  ELSE [w \in DOMAIN words \cup pageWords(getPageIx(addr)) |->
          IF w \in pageWords(getPageIx(addr))
          THEN [pages[getPageIx(addr)] EXCEPT !.word = TRUE]
          ELSE words[w]]

\* The word-aligned addresses of the words of [addr0, addr1], those beyond
\* the memory included.
rangeWordsUnclipped(addr0, addr1) ==
  {a \in {4 * i : i \in 0..(pmaMemSize \div 4 + 1)} :
     (addr0 \div 4) * 4 <= a /\ a <= (addr1 \div 4) * 4}

\* The word-aligned addresses of the words of [addr0, addr1] that lie in
\* the memory.
rangeWords(addr0, addr1) ==
  {a \in {4 * i : i \in 0..(pmaMemSize \div 4 - 1)} :
     (addr0 \div 4) * 4 <= a /\ a <= (addr1 \div 4) * 4}

\* No page is updated in pagePmas_.
wholePagesNone(pages, addr0, addr1) == {}

\* The pages of which [addr0, addr1] covers every word and that are not
\* fractured: their attribute is updated in pagePmas_.
wholePages(pages, addr0, addr1) ==
  {ix \in 0..(PmaPages - 1) :
     /\ ~pages[ix].word
     /\ \A w \in pageWords(ix) : 4 * w \in rangeWords(addr0, addr1)}

\* An update in which disable clears nothing.
updatedNoDisable(op, old, attrib) ==
  CASE op = "setAttribute" -> attrib
    [] op = "enable" -> old \cup attrib
    [] op = "disable" -> old

\* The attribute that an update of kind op with attrib makes of old.
updated(op, old, attrib) ==
  CASE op = "setAttribute" -> attrib
    [] op = "enable" -> old \cup attrib
    [] op = "disable" -> old \ attrib

\* enable, disable and setAttribute(addr0, addr1, attrib): the pages wholly
\* covered are updated in pagePmas_; the other pages of the range are
\* fractured, and the words of the range updated in wordPmas_, in the order
\* of their addresses until fracture throws.
pmaUpdate(op, pages, words, addr0, addr1, attrib) ==
  LET whole == wholePages(pages, addr0, addr1)
      reached == {a \in rangeWords(addr0, addr1) : getPageIx(a) \notin whole}
      byWord == {a \in reached : ~fractureThrows(a)}
      indices == {a \div 4 : a \in byWord}
      fractured(w) == fracture(pages, words, 4 * w)
      entry(w) == getPma(pages, fractured(w), 4 * w)
      inPage(w) == \E v \in indices : getPageIx(4 * v) = getPageIx(4 * w)
      allWords == DOMAIN words
                    \cup UNION {pageWords(getPageIx(a)) : a \in byWord}
  IN  [pagePmas |-> [ix \in 0..(PmaPages - 1) |->
                       IF ix \in whole
                       THEN [pages[ix] EXCEPT
                               !.attrib = updated(op, @, attrib)]
                       ELSE pages[ix]],
       wordPmas |-> [w \in allWords |->
                       IF w \in indices
                       THEN [entry(w) EXCEPT
                               !.attrib = updated(op, @, attrib)]
                       ELSE IF inPage(w) THEN fractured(w)[w]
                       ELSE words[w]],
       thrown |-> \E a \in reached : fractureThrows(a)]

\* The mask of a word that has none: 0xffffffff (line 177).
NoMask == 0..31

\* The key of addr in memMappedMasks_ with the address taken as it is.
maskKeyUnaligned(addr) == addr

\* The key of addr in memMappedMasks_: (addr >> 2) << 2 (lines 168, 175).
maskKey(addr) == (addr \div 4) * 4

\* PmaManager::getMemMappedMask(addr), on the table masks.
getMemMappedMask(masks, addr) ==
  IF maskKey(addr) \notin DOMAIN masks THEN NoMask ELSE masks[maskKey(addr)]

\* A reset that zeroes every word.
resetAllWords(masks, data) == [a \in DOMAIN data |-> {}]

\* PmaManager::resetMemMapped(data): the memory afterwards (lines 186-191).
resetWords(masks, data) ==
  [a \in DOMAIN data |-> IF a \in DOMAIN masks THEN {} ELSE data[a]]

\* ------------------------------------------------------------------------
\* Vector register file (VecRegs)
\* ------------------------------------------------------------------------

\* regCount_ and bytesPerReg_ of the configured register file.
VecRegCount == 2
VecBytesPerReg == 4

\* The two tests of read and write in arithmetic wide enough not to wrap.
vecAccessWide(regNum, elemIx, groupX8, sz) ==
  LET need == Mul(Add(elemIx, {0}, 40), Word(sz), 72)
      group == Shr(Mul(Word(VecBytesPerReg), groupX8, 72), 3)
      end == Add(Mul(regNum, Word(VecBytesPerReg), 72), need, 72)
      fileSize == Word(VecBytesPerReg * VecRegCount)
  IN  [ok |-> ~Less(group, need) /\ ~Less(fileSize, end),
       offset |-> Add(Mul(regNum, Word(VecBytesPerReg), 72),
                      Mul(elemIx, Word(sz), 72), 72)]

\* The two tests of read<T> and write<T> (lines 133-136, 151-154) for
\* sizeof(T) = sz, and the byte offset of data[elemIx] from data_ (lines
\* 137-138, 155-156). elemIx + 1, bytesPerReg_*groupX8, regNum*bytesPerReg_
\* and bytesPerReg_*regCount_ are unsigned, the rest is size_t.
vecAccess(regNum, elemIx, groupX8, sz) ==
  LET need == Mul(Add(elemIx, {0}, 32), Word(sz), 64)
      group == Shr(Mul(Word(VecBytesPerReg), groupX8, 32), 3)
      base == Mul(regNum, Word(VecBytesPerReg), 32)
      end == Add(base, need, 64)
      fileSize == Mul(Word(VecBytesPerReg), Word(VecRegCount), 32)
  IN  [ok |-> ~Less(group, need) /\ ~Less(fileSize, end),
       offset |-> Add(base, Mul(elemIx, Word(sz), 64), 64)]

\* The bytes of data_ that an element of sz bytes at byte offset off
\* occupies: none if it does not lie in data_.
vecBytes(off, sz) ==
  {b \in 0..(VecBytesPerReg * VecRegCount - 1) :
     /\ b + sz <= VecBytesPerReg * VecRegCount
     /\ Word(b) = off}

\* ------------------------------------------------------------------------
\* Operations
\* ------------------------------------------------------------------------

\* The pageSize the VirtMem is constructed with.
PageSize == 4096

Log2(x) == CHOOSE b \in x : \A c \in x : c <= b

\* No translate result: the last operation was a control operation.
Idle == [op |-> "control"]

\* The program runs until an assertion fails.
Running == res.op = "setPageSize" => res.ret # "assert"

\* VirtMem::VirtMem(hartIx, memory, pageSize, tlbSize), lines 7-19, with the
\* member initializers of the class, and PmaManager::PmaManager(memorySize,
\* pageSize): one unmapped Pma per page.
Init ==
  /\ mode = "Sv32"
  /\ pageSize = Word(PageSize)
  /\ pageBits = Log2(Word(PageSize))
  /\ pageMask = Add(Word(PageSize), 0..31, 32)
  /\ pageTableRootPage = {}
  /\ asid = 0
  /\ execReadable = FALSE
  /\ supervisorOk = FALSE
  /\ faultOnFirstAccess = FALSE
  /\ tlb = <<>>
  /\ mem = PageTables
  /\ res = Idle
  /\ calls = 0
  /\ pagePmas = [ix \in 0..(PmaPages - 1) |-> Pma(None)]
  /\ wordPmas = <<>>
  /\ pmaOp = [op |-> "none"]
  /\ pmaCalls = 0
  /\ memMappedMasks = <<>>
  /\ memData = [a \in {4 * i : i \in 0..(pmaMemSize \div 4 - 1)} |-> NoMask]
  /\ maskOp = [op |-> "none", set |-> {}]
  /\ vecData = [b \in 0..(VecBytesPerReg * VecRegCount - 1) |-> 0]
  /\ vecLast = [reg |-> 0..31, width |-> 0, ix |-> {}]
  /\ vecOp = [op |-> "none", ret |-> "none"]
  /\ vecCalls = 0

Translate ==
  /\ Running
  /\ calls < MaxCalls
  /\ \E va \in VAs(mode), priv \in PrivilegeModes, kind \in Kinds,
        ub \in UbShiftsIn(mode) :
       \E r \in {translate(va, priv, kind = "read", kind = "write",
                           kind = "exec", PaBefore, ub)} :
           /\ mem' = r.mem
           /\ tlb' = r.tlb
           /\ res' = [op |-> "translate", va |-> va, priv |-> priv,
                      kind |-> kind, cause |-> r.cause, pa |-> r.pa,
                      at |-> r.at, hit |-> r.hit, leaf |-> r.leaf,
                      perms |-> r.perms, pte |-> r.pte, level |-> r.level,
                      pteAddr |-> r.pteAddr, reads |-> r.reads,
                      writes |-> r.writes]
  /\ calls' = calls + 1
  /\ UNCHANGED <<mode, pageSize, pageBits, pageMask, pageTableRootPage, asid,
                 execReadable, supervisorOk, faultOnFirstAccess,
                 pmaVars, restVars>>

setPageTableRoot ==
  /\ Running
  /\ \E root \in Roots : pageTableRootPage' = root
  /\ res' = Idle
  /\ UNCHANGED <<mode, pageSize, pageBits, pageMask, asid, execReadable,
                 supervisorOk, faultOnFirstAccess, tlb, mem, calls,
                 pmaVars, restVars>>

setMode ==
  /\ Running
  /\ \E m \in Modes : mode' = m
  /\ res' = Idle
  /\ UNCHANGED <<pageSize, pageBits, pageMask, pageTableRootPage, asid,
                 execReadable, supervisorOk, faultOnFirstAccess, tlb, mem, calls,
                 pmaVars, restVars>>

setExecReadable ==
  /\ Running
  /\ \E flag \in BOOLEAN : execReadable' = flag
  /\ res' = Idle
  /\ UNCHANGED <<mode, pageSize, pageBits, pageMask, pageTableRootPage, asid,
                 supervisorOk, faultOnFirstAccess, tlb, mem, calls,
                 pmaVars, restVars>>

setSupervisorAccessUser ==
  /\ Running
  /\ \E flag \in BOOLEAN : supervisorOk' = flag
  /\ res' = Idle
  /\ UNCHANGED <<mode, pageSize, pageBits, pageMask, pageTableRootPage, asid,
                 execReadable, faultOnFirstAccess, tlb, mem, calls,
                 pmaVars, restVars>>

\* faultOnFirstAccess_ has no setter: the friend class Hart assigns it.
setFaultOnFirstAccess ==
  /\ Running
  /\ \E flag \in BOOLEAN : faultOnFirstAccess' = flag
  /\ res' = Idle
  /\ UNCHANGED <<mode, pageSize, pageBits, pageMask, pageTableRootPage, asid,
                 execReadable, supervisorOk, tlb, mem, calls,
                 pmaVars, restVars>>

\* What becomes of assert(0): the program aborts, or, built with NDEBUG,
\* goes on.
Builds == {"debug", "ndebug"}

\* The sizes setPageSize is called with: 0, 4 KiB, 8 KiB, 12 KiB, 2 MiB,
\* 1 GiB and 512 GiB.
PageSizes == {{}, {12}, {13}, {12, 13}, {21}, {30}, {39}}

\* setPageSize with bits computed from its argument.
setPageSizeResultFromSize(newSize, build) ==
  IF newSize \in {{12}, {21}, {30}} /\ mode = "Sv39"
  THEN [ret |-> "true", pageBits |-> Log2(newSize), pageSize |-> newSize]
  ELSE [ret |-> "false", pageBits |-> pageBits, pageSize |-> pageSize]

\* VirtMem::setPageSize(size), lines 216-257: what it returns, or the
\* assertion failure, and pageBits_ and pageSize_ afterwards. bits comes
\* from pageSize_ (line 222); the Sv48 branch does not return (lines
\* 246-253) and reaches the assert(0) of line 255, as does Bare mode.
setPageSizeResult(newSize, build) ==
  LET bits == Log2(pageSize)
      p2Size == {bits}
      ret(r, b, ps) == [ret |-> r, pageBits |-> b, pageSize |-> ps]
      failed == IF build = "debug" THEN "assert" ELSE "false"
  IN  IF newSize = {} THEN ret("false", pageBits, pageSize)
      ELSE IF newSize # p2Size THEN ret("false", pageBits, pageSize)
      ELSE IF mode = "Sv32"
           THEN IF newSize # {12} THEN ret("false", pageBits, pageSize)
                ELSE ret("true", bits, Trunc(newSize, 32))
      ELSE IF mode = "Sv39"
           THEN IF newSize \notin {{12}, {21}, {30}}
                THEN ret("false", pageBits, pageSize)
                ELSE ret("true", bits, Trunc(newSize, 32))
      ELSE IF mode = "Sv48"
           THEN IF newSize \notin {{12}, {21}, {30}, {39}}
                THEN ret("false", pageBits, pageSize)
                ELSE ret(failed, bits, Trunc(newSize, 32))
      ELSE ret(failed, pageBits, pageSize)

\* VirtMem::setPageSize(size).
setPageSize ==
  /\ Running
  /\ \E newSize \in PageSizes, build \in Builds :
       \E r \in {setPageSizeResult(newSize, build)} :
         /\ pageBits' = r.pageBits
         /\ pageSize' = r.pageSize
         /\ res' = [op |-> "setPageSize", size |-> newSize, ret |-> r.ret]
  /\ UNCHANGED <<mode, pageMask, pageTableRootPage, asid, execReadable,
                 supervisorOk, faultOnFirstAccess, tlb, mem, calls, pmaVars,
                 restVars>>

\* The addresses the PmaManager operations are called with: the first byte
\* of a word (addr0) and the last byte of a word (addr1), up to two words
\* beyond the memory.
PmaLows == {4 * i : i \in 0..(pmaMemSize \div 4 + 1)}
PmaHighs == {a + 3 : a \in PmaLows}

\* The PmaManager operations of a run.
MaxPmaCalls == 3

\* getPma of every word, for comparison after the next operation.
pmaSnapshot == [a \in PmaLows |-> getPma(pagePmas, wordPmas, a)]

\* Whether the operation before a disable(addr0, addr1, attrib) was the
\* enable of the same range and attribute.
afterEnable(addr0, addr1, attrib) ==
  /\ pmaOp.op = "enable"
  /\ pmaOp.addr0 = addr0 /\ pmaOp.addr1 = addr1 /\ pmaOp.attrib = attrib

\* PmaManager::setAttribute(addr0, addr1, attrib).
setAttribute ==
  /\ pmaCalls < MaxPmaCalls
  /\ \E addr0 \in PmaLows, addr1 \in PmaHighs, attrib \in {None, Default, Default \cup Cached} :
       /\ addr0 <= addr1
       /\ \E r \in {pmaUpdate("setAttribute", pagePmas, wordPmas, addr0, addr1,
                              attrib)} :
            /\ pagePmas' = r.pagePmas
            /\ wordPmas' = r.wordPmas
            /\ pmaOp' = [op |-> "setAttribute", addr0 |-> addr0, addr1 |-> addr1,
                         attrib |-> attrib, before |-> pmaSnapshot,
                         thrown |-> r.thrown]
  /\ pmaCalls' = pmaCalls + 1
  /\ UNCHANGED <<vmVars, restVars>>

\* PmaManager::enable(addr0, addr1, attrib).
enable ==
  /\ pmaCalls < MaxPmaCalls
  /\ \E addr0 \in PmaLows, addr1 \in PmaHighs, attrib \in {Cached} :
       /\ addr0 <= addr1
       /\ \E r \in {pmaUpdate("enable", pagePmas, wordPmas, addr0, addr1,
                              attrib)} :
            /\ pagePmas' = r.pagePmas
            /\ wordPmas' = r.wordPmas
            /\ pmaOp' = [op |-> "enable", addr0 |-> addr0, addr1 |-> addr1,
                         attrib |-> attrib, before |-> pmaSnapshot,
                         thrown |-> r.thrown]
  /\ pmaCalls' = pmaCalls + 1
  /\ UNCHANGED <<vmVars, restVars>>

\* PmaManager::disable(addr0, addr1, attrib).
disable ==
  /\ pmaCalls < MaxPmaCalls
  /\ \E addr0 \in PmaLows, addr1 \in PmaHighs, attrib \in {Cached} :
       /\ addr0 <= addr1
       /\ \E r \in {pmaUpdate("disable", pagePmas, wordPmas, addr0, addr1,
                              attrib)} :
            /\ pagePmas' = r.pagePmas
            /\ wordPmas' = r.wordPmas
            /\ pmaOp' = [op |-> "disable", addr0 |-> addr0, addr1 |-> addr1,
                         attrib |-> attrib, before |-> pmaSnapshot,
                         thrown |-> r.thrown,
                         afterEnable |-> afterEnable(addr0, addr1, attrib),
                         original |-> IF afterEnable(addr0, addr1, attrib)
                                      THEN pmaOp.before ELSE pmaSnapshot]
  /\ pmaCalls' = pmaCalls + 1
  /\ UNCHANGED <<vmVars, restVars>>

Next ==
  \/ Translate
  \/ setPageTableRoot
  \/ setMode
  \/ setExecReadable
  \/ setSupervisorAccessUser
  \/ setFaultOnFirstAccess

Spec == Init /\ [][Next]_vars

NextPageSize ==
  \/ setPageSize
  \/ setMode
  \/ setPageTableRoot
  \/ setExecReadable
  \/ setSupervisorAccessUser
  \/ setFaultOnFirstAccess

SpecPageSize == Init /\ [][NextPageSize]_vars

\* The addresses the mask operations are called with, in the memory, and
\* the masks.
MaskAddrs == 0..(pmaMemSize - 1)
MaskValues == {{}, 0..15}

\* getMemMappedMask of every address, for comparison after the next
\* operation.
maskSnapshot == [b \in MaskAddrs |-> getMemMappedMask(memMappedMasks, b)]

\* PmaManager::setMemMappedMask(addr, mask).
setMemMappedMask ==
  /\ \E addr \in MaskAddrs, mask \in MaskValues :
       /\ memMappedMasks' =
            [k \in DOMAIN memMappedMasks \cup {maskKey(addr)} |->
               IF k = maskKey(addr) THEN mask ELSE memMappedMasks[k]]
       /\ maskOp' = [op |-> "setMemMappedMask", addr |-> addr, mask |-> mask,
                     masksBefore |-> maskSnapshot, dataBefore |-> memData,
                     set |-> maskOp.set \cup {(addr \div 4) * 4}]
  /\ UNCHANGED <<vmVars, pmaVars, memData, vecVars>>

\* PmaManager::resetMemMapped(data).
resetMemMapped ==
  /\ memData' = resetWords(memMappedMasks, memData)
  /\ maskOp' = [op |-> "resetMemMapped", addr |-> 0, mask |-> {},
                masksBefore |-> maskSnapshot, dataBefore |-> memData,
                set |-> maskOp.set]
  /\ UNCHANGED <<vmVars, pmaVars, memMappedMasks, vecVars>>

NextMask ==
  \/ setMemMappedMask
  \/ resetMemMapped

SpecMask == Init /\ [][NextMask]_vars

\* The arguments read and write are called with: regNum, elemIx, groupX8
\* and sizeof(T).
VecArgs ==
  [regNum : {{}, {0}, {30}}, elemIx : {{}, {0}, {0, 1}, 0..31},
   groupX8 : {{2}, {3}, {4}}, sz : {1, 2, 4, 8}]

\* What an access outside data_ (undefined behaviour) may do: go
\* unnoticed, or end the program.
VecUb == {"stray", "crash"}

\* The read and write calls of a run.
MaxVecCalls == 2

\* VecRegs::write<T>(regNum, elemIx, groupX8, value) with a value of bytes 1.
vecWrite ==
  /\ vecCalls < MaxVecCalls /\ vecOp.ret # "crash"
  /\ \E c \in VecArgs, ub \in VecUb :
       \E a \in {vecAccess(c.regNum, c.elemIx, c.groupX8, c.sz)} :
         \E at \in {vecBytes(a.offset, c.sz)} :
           LET done == a.ok /\ (at # {} \/ ub = "stray")
           IN  /\ vecData' = [b \in DOMAIN vecData |->
                                IF done /\ \E o \in at : o <= b /\ b < o + c.sz
                                THEN 1 ELSE vecData[b]]
               /\ vecLast' = IF done
                             THEN [reg |-> c.regNum, width |-> c.sz * 8,
                                   ix |-> c.elemIx]
                             ELSE vecLast
               /\ vecOp' = [op |-> "write", args |-> c,
                            ret |-> IF ~a.ok THEN "false"
                                    ELSE IF done THEN "true" ELSE "crash",
                            inside |-> at # {},
                            dataBefore |-> vecData, lastBefore |-> vecLast]
  /\ vecCalls' = vecCalls + 1
  /\ UNCHANGED <<vmVars, pmaVars, maskVars>>

\* VecRegs::read<T>(regNum, elemIx, groupX8, value).
vecRead ==
  /\ vecCalls < MaxVecCalls /\ vecOp.ret # "crash"
  /\ \E c \in VecArgs, ub \in VecUb :
       \E a \in {vecAccess(c.regNum, c.elemIx, c.groupX8, c.sz)} :
         \E at \in {vecBytes(a.offset, c.sz)} :
           vecOp' = [op |-> "read", args |-> c,
                     ret |-> IF ~a.ok THEN "false"
                             ELSE IF at # {} \/ ub = "stray" THEN "true"
                             ELSE "crash",
                     inside |-> at # {},
                     dataBefore |-> vecData, lastBefore |-> vecLast]
  /\ vecCalls' = vecCalls + 1
  /\ UNCHANGED <<vmVars, pmaVars, maskVars, vecData, vecLast>>

NextVec ==
  \/ vecWrite
  \/ vecRead

SpecVec == Init /\ [][NextVec]_vars

NextGeometry ==
  \/ setPageSize
  \/ setMode
  \/ setPageTableRoot
  \/ Translate

SpecGeometry == Init /\ [][NextGeometry]_vars

NextPma ==
  \/ setAttribute
  \/ enable
  \/ disable

SpecPma == Init /\ [][NextPma]_vars

\* ------------------------------------------------------------------------
\* Properties
\* ------------------------------------------------------------------------

\* The last operation was a translate call.
Translated == res.op = "translate"

\* The page fault of an access kind.
FaultOf(kind) ==
  CASE kind = "exec" -> "INST_PAGE_FAULT"
    [] kind = "read" -> "LOAD_PAGE_FAULT"
    [] kind = "write" -> "STORE_PAGE_FAULT"

\* C1: in Bare mode translate returns NONE with pa = va, for every va,
\* privilege level and access kind, whatever the TLB, the page table root and
\* the memory hold, and it reads and writes no memory.
C1_BareIdentity ==
  (Translated /\ mode = "Bare") =>
    /\ res.cause = "NONE"
    /\ res.pa = res.va
    /\ res.reads = <<>>
    /\ res.writes = <<>>

\* A Bare translate of an address above 32 bits, while the TLB holds an
\* entry and the root is a page table.
C1_Witness ==
  /\ Translated /\ mode = "Bare"
  /\ tlb # <<>> /\ pageTableRootPage # {}
  /\ res.va = VaHigh /\ res.pa = VaHigh /\ res.cause = "NONE"

\* C2: after setAttribute(addr0, addr1, attrib), getPma reports exactly
\* attrib for every word of [addr0, addr1] in the memory, and what it
\* reported before the call for every other word.
C2_SetAttributeExact ==
  pmaOp.op = "setAttribute" =>
    \A a \in PmaLows :
      IF a \in rangeWords(pmaOp.addr0, pmaOp.addr1)
      THEN getPma(pagePmas, wordPmas, a).attrib = pmaOp.attrib
      ELSE PmaEq(getPma(pagePmas, wordPmas, a), pmaOp.before[a])

\* The access kind is permitted by the permissions perms (R, W, X) under
\* the current MXR setting.
Permitted(kind, perms) ==
  CASE kind = "read" -> perms.read \/ (execReadable /\ perms.exec)
    [] kind = "write" -> perms.write
    [] kind = "exec" -> perms.exec

\* C3: when a translation reaches a leaf (by a walk or by a TLB hit) and the
\* privilege checks pass, the access-kind check faults exactly when the
\* requested kind is not permitted; an execute of a leaf with X = 1 is not
\* faulted by this check, and an execute of a leaf with X = 0 returns
\* INST_PAGE_FAULT.
C3_AccessKindCheck ==
  (Translated /\ res.leaf /\ res.at \notin {"user", "sum"}) =>
    /\ (res.at = "access") <=> ~Permitted(res.kind, res.perms)
    /\ (res.kind = "exec" /\ ~res.perms.exec) => res.cause = "INST_PAGE_FAULT"

\* C4: a translate served by a TLB hit returns the same cause and the same
\* pa as a walk of the page tables that reaches the same mapping (a leaf
\* with the permissions of the TLB entry) for the same va, privilege level
\* and access kind, the accessed/dirty policy aside.
C4_HitEqualsWalk ==
  (Translated /\ res.hit /\ res.at # "first") =>
    \A ub \in UbShiftsIn(mode) :
      \E w \in {translateWalk(res.va, res.priv, res.kind = "read",
                              res.kind = "write", res.kind = "exec",
                              PaBefore, ub)} :
        (/\ w.leaf /\ w.at \notin {"first", "writeback"}
         /\ \A f \in {"user", "read", "write", "exec"} :
              w.perms[f] = res.perms[f]) =>
          w.cause = res.cause /\ w.pa = res.pa

\* C5: whenever translate fails, at whatever point, the cause is the page
\* fault of the access kind: INST_PAGE_FAULT for exec, LOAD_PAGE_FAULT for
\* read, STORE_PAGE_FAULT for write.
C5_FaultByKind ==
  (Translated /\ res.cause # "NONE") =>
    /\ res.kind = "exec" => res.cause = "INST_PAGE_FAULT"
    /\ res.kind = "read" => res.cause = "LOAD_PAGE_FAULT"
    /\ res.kind = "write" => res.cause = "STORE_PAGE_FAULT"

\* A write that fails when the updated leaf entry cannot be written back.
C5_Witness ==
  /\ Translated /\ res.at = "writeback" /\ res.kind = "write"
  /\ res.cause = "STORE_PAGE_FAULT"

\* C6: in Sv39 a va whose bits 63:39 differ from bit 38, and in Sv48 a va
\* whose bits 63:48 differ from bit 47, gets the page fault of the access
\* kind, after any earlier translate, setMode and control operations.
C6_NonCanonicalFaults ==
  (/\ Translated
   /\ \/ mode = "Sv39" /\ nonCanonical39(res.va)
      \/ mode = "Sv48" /\ nonCanonical48(res.va)) =>
    res.cause = FaultOf(res.kind)

\* C7: at a leaf (walk or TLB hit), a User access to a page with U = 0
\* faults, for every access kind and MXR and SUM setting; a Supervisor
\* access to a page with U = 1 faults when SUM is clear, and is not faulted
\* by the privilege check when SUM is set.
C7_PrivilegeChecks ==
  (Translated /\ res.leaf) =>
    /\ (res.priv = "User" /\ ~res.perms.user) =>
         res.cause = FaultOf(res.kind) /\ res.at = "user"
    /\ (res.priv = "Supervisor" /\ res.perms.user /\ ~supervisorOk) =>
         res.cause = FaultOf(res.kind) /\ res.at = "sum"
    /\ (res.priv = "Supervisor" /\ res.perms.user /\ supervisorOk) =>
         res.at \notin {"user", "sum"}
    /\ (res.priv = "User" /\ res.perms.user) => res.at \notin {"user", "sum"}

\* A Supervisor access to a U = 1 page that succeeds on a TLB hit with SUM
\* set.
C7_Witness ==
  /\ Translated /\ res.hit /\ res.priv = "Supervisor" /\ res.perms.user
  /\ supervisorOk /\ res.cause = "NONE"

\* The permissions R = W = X = U = A = D = 1.
AllPerms ==
  [user |-> TRUE, read |-> TRUE, write |-> TRUE, exec |-> TRUE,
   accessed |-> TRUE, dirty |-> TRUE]

\* C8: for a valid, correctly aligned leaf with R = W = X = U = A = D = 1,
\* translate from User mode returns NONE for a read, a write and an exec,
\* on the walk and on every TLB hit.
C8_FullLeafNeverFaults ==
  (/\ Translated /\ res.leaf /\ res.priv = "User" /\ res.perms = AllPerms
   /\ res.hit \/ ~walkAlignFault(mode, res.pte, res.level)) =>
    res.cause = "NONE"

\* The physical address of step 9 in 64 bits: the offset, va.vpn[j] for
\* j < ii and pte.ppn[j] for j >= ii, each at paPpnShift(j).
paWide(m, va, pte, ii) ==
  offset(va)
    \cup UNION {Shl(vpnField(m, va, j), paPpnShift(m, j), 64) : j \in 0..(ii - 1)}
    \cup UNION {Shl(ppnField(m, pte, j), paPpnShift(m, j), 64) :
                  j \in ii..(levels(m) - 1)}

\* C9: a successful walk that ends at a leaf of level i returns the pa made
\* of the va offset, va.vpn[j] at paPpnShift(j) for j < i and pte.ppn[j] at
\* paPpnShift(j) for j >= i, without truncation to 32 bits: 0x140001234 for
\* the Sv39 level 1 leaf with ppn2 = 5 and va 0x40001234, 0x00003123 for the
\* Sv32 mapping of va 0x00800123 to PPN 3.
C9_PaComposition ==
  (Translated /\ ~res.hit /\ res.leaf /\ res.cause = "NONE") =>
    res.pa = paWide(mode, VaData(mode, res.va), res.pte, res.level)

\* C10: when a walk with faultOnFirstAccess = false returns NONE for a leaf
\* with A = 0 (or for a write to a leaf with D = 0), the entry in memory at
\* the address the leaf was read from has A = 1, D = 1 if the access is a
\* write, and is otherwise as read; nothing else is written.
C10_WriteBackToLeaf ==
  (/\ Translated /\ ~res.hit /\ res.leaf /\ res.cause = "NONE"
   /\ ~faultOnFirstAccess
   /\ ~res.perms.accessed \/ (res.kind = "write" /\ ~res.perms.dirty)) =>
    /\ MemRead(mem, res.pteAddr, size(mode)).data
         = res.pte \cup AccessedBit
             \cup (IF res.kind = "write" THEN DirtyBit ELSE {})
    /\ \A i \in 1..Len(res.writes) : res.writes[i].addr = res.pteAddr

\* C11: with faultOnFirstAccess set, a translate that reaches a leaf entry or
\* a TLB entry with A = 0, or a write that reaches one with D = 0, returns
\* the page fault of its access kind, writes nothing to memory and leaves
\* the TLB as it was (no flag set, no entry inserted).
C11_FaultOnFirstAccess ==
  [][(/\ faultOnFirstAccess /\ calls' = calls + 1 /\ res'.leaf
      /\ \/ ~res'.perms.accessed
         \/ res'.kind = "write" /\ ~res'.perms.dirty) =>
       /\ res'.cause = FaultOf(res'.kind)
       /\ res'.writes = <<>> /\ mem' = mem /\ tlb' = tlb]_vars

\* A write that passed every check of a leaf with A = 1 and D = 0 and was
\* faulted by the policy.
C11_Witness ==
  /\ Translated /\ faultOnFirstAccess /\ res.at = "first"
  /\ res.kind = "write" /\ res.perms.accessed /\ ~res.perms.dirty
  /\ res.cause = "STORE_PAGE_FAULT"

\* C12: after a translate(write) that succeeded by a walk and wrote the
\* entry back with A and D set, the next translate(write) of the same va at
\* the same privilege level, nothing else called in between, returns NONE
\* with the same pa from a TLB entry that has accessed and dirty set, and
\* writes nothing to memory.
C12_SecondWriteHits ==
  [][(/\ Translated /\ res.kind = "write" /\ res.cause = "NONE"
      /\ ~res.hit /\ res.writes # <<>>
      /\ calls' = calls + 1 /\ res'.kind = "write"
      /\ res'.va = res.va /\ res'.priv = res.priv) =>
       /\ res'.cause = "NONE" /\ res'.pa = res.pa
       /\ res'.hit /\ res'.perms.accessed /\ res'.perms.dirty
       /\ res'.writes = <<>> /\ mem' = mem]_vars

\* The second of two calls, a write of Va32b served by the TLB entry with
\* dirty set, after the walk of the first call wrote to memory: the leaf of
\* Va32b has D = 0 in the page tables, so the first call was a write too.
C12_Witness ==
  /\ Translated /\ calls = 2 /\ mode = "Sv32" /\ res.va = Va32b
  /\ res.kind = "write" /\ res.hit /\ res.cause = "NONE"
  /\ res.perms.dirty /\ mem # PageTables

\* C13: a call that changes the mode or the page table root leaves no valid
\* entry in the TLB.
C13_NoEntrySurvives ==
  [][(mode' # mode \/ pageTableRootPage' # pageTableRootPage) =>
       \A i \in 1..Len(tlb') : ~tlb'[i].valid]_vars

\* C15: translate returns NONE or one of the three page faults after at
\* most levels reads of page table entries (none in Bare mode), and a
\* valid pointer entry read at level 0 ends the walk with the page fault of
\* the access kind.
C15_WalkBounded ==
  Translated =>
    /\ res.cause \in {"NONE", "INST_PAGE_FAULT", "LOAD_PAGE_FAULT",
                      "STORE_PAGE_FAULT"}
    /\ Len(res.reads) <= (IF mode = "Bare" THEN 0 ELSE levels(mode))
    /\ (/\ ~res.hit /\ res.at \notin {"bare", "canonical", "read", "invalid"}
        /\ res.level = 0 /\ ~read(res.pte) /\ ~exec(res.pte)) =>
         res.at = "levels" /\ res.cause = FaultOf(res.kind)

\* A walk through page tables whose pointer entries form a cycle: three
\* reads of the same entry in Sv39, then the fault.
C15_Witness ==
  /\ Translated /\ mode = "Sv39" /\ res.va = VaCycle /\ res.at = "levels"
  /\ Len(res.reads) = 3 /\ res.reads[1] = res.reads[3]
  /\ res.cause = FaultOf(res.kind)

\* The page sizes of a mode.
AllowedSizes(m) ==
  CASE m = "Sv32" -> {{12}}
    [] m = "Sv39" -> {{12}, {21}, {30}}
    [] m = "Sv48" -> {{12}, {21}, {30}, {39}}
    [] OTHER -> {}

\* C14: setPageSize(size) returns true, with size the page size and
\* pageBits its logarithm afterwards, exactly when size is one of the page
\* sizes of the current mode, whatever the page size was before.
C14_SetPageSizeAccepts ==
  res.op = "setPageSize" =>
    ((/\ res.ret = "true" /\ pageSize = res.size
      /\ pageBits = Log2(res.size)) <=> res.size \in AllowedSizes(mode))

\* The last operation was a PmaManager operation.
PmaCalled == pmaOp.op # "none"

\* The word-aligned addresses in the memory.
PmaWords == {a \in PmaLows : a < pmaMemSize}

C17_EnableDisableFrame ==
  pmaOp.op \in {"enable", "disable"} =>
    \A a \in PmaWords :
      getPma(pagePmas, wordPmas, a).attrib =
        IF a \in rangeWords(pmaOp.addr0, pmaOp.addr1)
        THEN updated(pmaOp.op, pmaOp.before[a].attrib, pmaOp.attrib)
        ELSE pmaOp.before[a].attrib

\* C18 as stated: after enable(lo, hi, attrib) and then disable(lo, hi,
\* attrib), getPma of every address is what it was before the enable.
C18_RoundTrip ==
  (pmaOp.op = "disable" /\ pmaOp.afterEnable) =>
    \A a \in PmaLows :
      PmaEq(getPma(pagePmas, wordPmas, a), pmaOp.original[a])

\* C18: after enable(lo, hi, attrib) and then disable(lo, hi, attrib),
\* getPma of every address is what it was before the enable, provided that
\* no word of [lo, hi] had a bit of attrib set before the enable.
C18_RoundTripFromClear ==
  (/\ pmaOp.op = "disable" /\ pmaOp.afterEnable
   /\ \A a \in rangeWords(pmaOp.addr0, pmaOp.addr1) :
        pmaOp.original[a].attrib \cap pmaOp.attrib = {}) =>
    \A a \in PmaLows :
      PmaEq(getPma(pagePmas, wordPmas, a), pmaOp.original[a])

\* An enable that set the bit on a whole page, mapped and without the bit
\* before, and the disable that cleared it again.
C18_Witness ==
  /\ pmaOp.op = "disable" /\ pmaOp.afterEnable
  /\ pmaOp.addr0 = 0 /\ pmaOp.addr1 = pmaPageSize - 1
  /\ pmaOp.original[0].attrib = Default
  /\ pmaOp.before[0].attrib = Default \cup Cached
  /\ getPma(pagePmas, wordPmas, 0).attrib = Default

\* C19: after a setAttribute(lo, hi, A) of exactly one whole page that
\* sub-page updates had fractured, getPma of every word of the page equals
\* Pma(A), as in a PmaManager where the page was never fractured.
C19_WholePageAfterFracture ==
  pmaOp.op = "setAttribute" =>
    \A ix \in 0..(PmaPages - 1) :
      (/\ pmaOp.addr0 = ix * pmaPageSize
       /\ pmaOp.addr1 = ix * pmaPageSize + pmaPageSize - 1
       /\ pageWords(ix) \subseteq DOMAIN wordPmas) =>
        \A w \in pageWords(ix) :
          PmaEq(getPma(pagePmas, wordPmas, 4 * w), Pma(pmaOp.attrib))

\* Page 0, fractured by a sub-page update that left another attribute in
\* the entry of word 0, was set as a whole to Default with Cached.
C19_Witness ==
  /\ pmaOp.op = "setAttribute" /\ pmaOp.addr0 = 0
  /\ pmaOp.addr1 = pmaPageSize - 1 /\ pmaOp.attrib = Default \cup Cached
  /\ pageWords(0) \subseteq DOMAIN wordPmas
  /\ wordPmas[0].attrib # pmaOp.attrib
  /\ pmaOp.before[0].attrib # pmaOp.attrib

C23_InvalidEntryFaults ==
  (/\ Translated /\ ~res.hit /\ res.at \notin {"bare", "canonical", "read"}
   /\ \/ ValidBit \cap res.pte = {}
      \/ ReadBit \cap res.pte = {} /\ WriteBit \cap res.pte # {}) =>
    res.at = "invalid" /\ res.cause = FaultOf(res.kind)

\* A valid entry with R = 0, W = 1 and X = 1 was fetched.
C23_Witness ==
  /\ Translated /\ res.at = "invalid" /\ ValidBit \subseteq res.pte
  /\ ReadBit \cap res.pte = {} /\ WriteBit \cup ExecBit \subseteq res.pte
  /\ res.cause = FaultOf(res.kind)

\* C24: a walk that finds a leaf at level i > 0 with ppn[j] # 0 for some
\* j < i returns the page fault of the access kind, leaves the caller's pa
\* alone and the TLB without an entry for the page; the alignment check
\* faults no leaf at level 0.
C24_SuperpageAlignment ==
  (Translated /\ ~res.hit) =>
    /\ (/\ res.leaf /\ res.level > 0
        /\ \E j \in 0..(res.level - 1) :
             Field(res.pte, PpnLo(mode, j), PpnWidth(mode, j)) # {}) =>
         /\ res.cause = FaultOf(res.kind) /\ res.pa = PaBefore
         /\ findEntry(tlb, Shr(res.va, pageBits), asid) = 0
    /\ res.at = "align" => res.level > 0

\* The Sv39 level 1 leaf with a non-zero ppn0 passed the checks of step 6
\* and was faulted by the alignment check.
C24_Witness ==
  /\ Translated /\ mode = "Sv39" /\ res.va = VaMisaligned
  /\ res.at = "align" /\ res.level = 1 /\ res.cause = FaultOf(res.kind)

\* C25: in Sv48 the first entry of a walk is read at
\* root * pageSize + va[47:39] * 8.
C25_Sv48TopIndex ==
  (Translated /\ mode = "Sv48" /\ res.reads # <<>>) =>
    res.reads[1] = Add(Mul(pageTableRootPage, pageSize, 64),
                       Shl(Field(res.va, 39, 9), 3, 64), 64)

\* C26: after a translate for a write that returns NONE with
\* faultOnFirstAccess clear, by a walk or by a TLB hit, the leaf entry in
\* memory that maps the va has A = 1 and D = 1.
C26_LeafDirtyInMemory ==
  (/\ Translated /\ res.kind = "write" /\ res.cause = "NONE"
   /\ mode # "Bare" /\ ~faultOnFirstAccess) =>
    \E w \in {walkLoop(mode, VaData(mode, res.va),
                        Mul(pageTableRootPage, pageSize, 64),
                        levels(mode) - 1, <<>>)} :
      w.leaf => AccessedBit \cup DirtyBit \subseteq w.pte

\* C28: a translate that returns a page fault leaves the memory, the TLB
\* and the caller's pa as they were, and the TLB changes only in a translate
\* that returns NONE.
C28_FaultHasNoEffect ==
  [][(calls' = calls + 1) =>
       /\ res'.cause # "NONE" =>
            mem' = mem /\ tlb' = tlb /\ res'.pa = PaBefore
       /\ Len(tlb') > Len(tlb) => ~res'.hit /\ res'.cause = "NONE"]_vars

\* A translate that failed at the last point of failure, the write back of
\* the leaf entry, with an entry in the TLB.
C28_Witness ==
  /\ Translated /\ res.at = "writeback" /\ res.cause = FaultOf(res.kind)
  /\ tlb # <<>> /\ res.pa = PaBefore

\* C29: in every state reached by setMode, setPageSize and translate calls,
\* pageSize = 2^pageBits and pageMask = pageSize - 1, after a setPageSize
\* that returned true as after one that returned false.
C29_PageGeometry ==
  /\ pageSize = {pageBits}
  /\ pageMask = 0..(pageBits - 1)

\* A setPageSize that returned true, after a translate.
C29_Witness ==
  /\ res.op = "setPageSize" /\ res.ret = "true" /\ calls > 0
  /\ mode = "Sv39" /\ tlb # <<>>

\* C27: a page that was fractured (wordPmas holds the entries of its words)
\* has its sub-page flag set in pagePmas, and getPma of each of its words is
\* the entry of the word in wordPmas.
C27_FractureSetsFlag ==
  \A ix \in 0..(PmaPages - 1) :
    pageWords(ix) \cap DOMAIN wordPmas # {} =>
      /\ pagePmas[ix].word
      /\ \A w \in pageWords(ix) :
           /\ w \in DOMAIN wordPmas
           /\ PmaEq(getPma(pagePmas, wordPmas, 4 * w), wordPmas[w])

\* C21: after setMemMappedMask(a, m), getMemMappedMask returns m for every
\* address of the word of a and what it returned before for every other
\* address; in every state it returns 0xffffffff for every word for which
\* no mask was set.
C21_MasksKeyedByWord ==
  /\ maskOp.op = "setMemMappedMask" =>
       \A b \in MaskAddrs :
         getMemMappedMask(memMappedMasks, b) =
           IF b \div 4 = maskOp.addr \div 4 THEN maskOp.mask
           ELSE maskOp.masksBefore[b]
  /\ \A b \in MaskAddrs :
       (b \div 4) * 4 \notin maskOp.set =>
         getMemMappedMask(memMappedMasks, b) = NoMask

\* A mask set through an unaligned address replaced another mask of the
\* same word, while another word keeps its own mask.
C21_Witness ==
  /\ maskOp.op = "setMemMappedMask" /\ maskOp.addr % 4 # 0
  /\ maskOp.masksBefore[maskOp.addr] \notin {NoMask, maskOp.mask}
  /\ getMemMappedMask(memMappedMasks, (maskOp.addr \div 4) * 4) = maskOp.mask
  /\ \E b \in MaskAddrs :
       getMemMappedMask(memMappedMasks, b) \notin {NoMask, maskOp.mask}

\* C22: after resetMemMapped, the words of the memory whose address had a
\* mask set are zero, every other word is what it was, and getMemMappedMask
\* of every address is what it was.
C22_ResetZeroesMaskedWords ==
  maskOp.op = "resetMemMapped" =>
    /\ \A a \in DOMAIN memData :
         memData[a] = IF a \in maskOp.set THEN {} ELSE maskOp.dataBefore[a]
    /\ \A b \in MaskAddrs :
         getMemMappedMask(memMappedMasks, b) = maskOp.masksBefore[b]

\* A reset zeroed a word that was not zero and left another word, which
\* has no mask, as it was; the mask of the zeroed word is still there.
C22_Witness ==
  /\ maskOp.op = "resetMemMapped"
  /\ \E a \in DOMAIN memData :
       /\ maskOp.dataBefore[a] # {} /\ memData[a] = {}
       /\ getMemMappedMask(memMappedMasks, a) = 0..15
  /\ \E a \in DOMAIN memData : a \notin maskOp.set /\ memData[a] # {}

\* C30: read and write return true only if, in integers that do not wrap,
\* (elemIx+1)*sizeof(T) <= bytesPerReg*groupX8/8 and
\* regNum*bytesPerReg + (elemIx+1)*sizeof(T) <= bytesPerReg*regCount, and
\* when they return false the register data and the last-written record are
\* what they were.
C30_VecAccessInBounds ==
  vecOp.op \in {"read", "write"} =>
    /\ vecOp.ret = "true" =>
         vecAccessWide(vecOp.args.regNum, vecOp.args.elemIx,
                       vecOp.args.groupX8, vecOp.args.sz).ok
    /\ vecOp.ret = "false" =>
         vecData = vecOp.dataBefore /\ vecLast = vecOp.lastBefore

====
